---- MODULE Spec2Model ----
(***************************************************************************)
(* Model of scripts/generate_wod.js: the planning core buildPlan and the   *)
(* functions it calls (SeededRng, recentContext, canDoMovement,            *)
(* scoreMovement, rankCandidates, pickBest, buildWarmup,                   *)
(* buildStrengthOrSkillBlock, buildMetcon, buildCooldown).                 *)
(*                                                                         *)
(* Scores are kept in tenths (3.0 is 30, 1.3 is 13, 0.4 is 4): every       *)
(* weight of scoreMovement is a multiple of 0.1, so the tenths are exact   *)
(* integers; the rounding of the script's doubles is not modelled.         *)
(* 32-bit words of the random source are pairs <<hi, lo>> of 16-bit halves *)
(* so that no intermediate value leaves the checker's integer range.       *)
(***************************************************************************)
EXTENDS Integers, Sequences, FiniteSets, TLC

VARIABLES
    profile,          \* buildPlan argument: the normalised profile
    history,          \* buildPlan argument: sequence of sessions
    movements,        \* buildPlan argument: the movement library
    lookbackDays,     \* buildPlan argument
    seed,             \* buildPlan argument
    today,            \* environment: the day todayOrdinalDay() reads
    pc,               \* position inside buildPlan
    rng,              \* SeededRng.state
    recentMovements,  \* recentContext(...).recentMovements
    patternCounter,   \* recentContext(...).patternCounter
    ranked,           \* rankCandidates(...): sequence of <<library index, score>>
    used,             \* the used-names set
    warmup,           \* block built by buildWarmup
    strengthOrSkill,  \* block built by buildStrengthOrSkillBlock (or Null)
    metcon,           \* block built by buildMetcon
    cooldown,         \* block built by buildCooldown
    plan,             \* the value buildPlan returns (NoPlan until it returns)
    error,            \* the error buildPlan throws ("" while none)
    call,             \* a function called on its own: its name and arguments
    returned          \* what that call returned (NoCall outside such calls)

vars == <<profile, history, movements, lookbackDays, seed, today, pc, rng,
          recentMovements, patternCounter, ranked, used, warmup,
          strengthOrSkill, metcon, cooldown, plan, error, call, returned>>

\* a single call of one function, outside a run of buildPlan
unit == <<call, returned>>

NoCall == [nocall |-> TRUE]

inputs == <<profile, history, movements, lookbackDays, seed, today>>

----------------------------------------------------------------------------
(* Bounds of the model *)

\* seeds are drawn from 0..MaxSeed
MaxSeed == 1
\* libraries hold at most MaxLib movements
MaxLib == 4
\* a pattern's count is raised by 1..MaxIncrease when two counters are compared
MaxIncrease == 2
\* libraries handed to buildCooldown alone hold at most MaxCooldownLib movements
MaxCooldownLib == 4
\* libraries handed to buildMetcon alone hold at most MaxMetconLib movements
MaxMetconLib == 6
\* pickBest alone is called with random sources seeded 0..MaxPickSeed
MaxPickSeed == 4
\* histories handed to recentContext alone hold at most MaxHistory sessions
MaxHistory == 2

----------------------------------------------------------------------------
(* Strings: value.trim().toLowerCase() *)

\* String.prototype.trim() on the strings the model uses
Trim(s) ==
    CASE s = " core" -> "core"
      [] s = " " -> ""
      [] s = " Skill " -> "Skill"
      [] OTHER -> s

\* String.prototype.toLowerCase() on the strings the model uses
Lower(s) ==
    CASE s = "Run" -> "run"
      [] s = "Barbell" -> "barbell"
      [] s = "Engine" -> "engine"
      [] s = "Recovery" -> "recovery"
      [] s = "Skill" -> "skill"
      [] s = "High" -> "high"
      [] s = "Advanced" -> "advanced"
      [] s = "AMRAP" -> "amrap"
      [] s = "Hinge" -> "hinge"
      [] OTHER -> s

\* value.trim().toLowerCase()
Norm(s) == Lower(Trim(s))

\* String.prototype.includes(part) on the lower-cased names the model uses
Includes(s, part) ==
    CASE part = "burpee" -> s \in {"burpee"}
      [] OTHER -> s = part

\* asLowerSet: trimmed, lower-cased, empty strings dropped
asLowerSet(values) == {Norm(v) : v \in values} \ {""}

Null == "null"

----------------------------------------------------------------------------
(* SeededRng: 32-bit arithmetic on <<hi, lo>> halves *)

Half == 2 ^ 16

RECURSIVE Xor16(_, _, _)
Xor16(a, b, n) ==
    IF n = 0 THEN 0
    ELSE ((a + b) % 2) + 2 * Xor16(a \div 2, b \div 2, n - 1)

RECURSIVE Or16(_, _, _)
Or16(a, b, n) ==
    IF n = 0 THEN 0
    ELSE (IF (a % 2) + (b % 2) > 0 THEN 1 ELSE 0) + 2 * Or16(a \div 2, b \div 2, n - 1)

Xor32(a, b) == <<Xor16(a[1], b[1], 16), Xor16(a[2], b[2], 16)>>

\* a | k for a constant k below 2^16
OrLow(a, k) == <<a[1], Or16(a[2], k, 16)>>

\* a >>> k for 0 < k < 16
Shr32(a, k) ==
    <<a[1] \div (2 ^ k), (a[2] \div (2 ^ k)) + (a[1] % (2 ^ k)) * (2 ^ (16 - k))>>

Add32(a, b) ==
    LET lo == a[2] + b[2]
    IN  <<(a[1] + b[1] + (lo \div Half)) % Half, lo % Half>>

\* Math.imul: the low 32 bits of the product, byte by byte
Imul(a, b) ==
    LET a0 == a[2] % 256  a1 == a[2] \div 256  a2 == a[1] % 256  a3 == a[1] \div 256
        b0 == b[2] % 256  b1 == b[2] \div 256  b2 == b[1] % 256  b3 == b[1] \div 256
        p0 == a0 * b0
        p1 == a0 * b1 + a1 * b0 + (p0 \div 256)
        p2 == a0 * b2 + a1 * b1 + a2 * b0 + (p1 \div 256)
        p3 == a0 * b3 + a1 * b2 + a2 * b1 + a3 * b0 + (p2 \div 256)
    IN  <<(p3 % 256) * 256 + (p2 % 256), (p1 % 256) * 256 + (p0 % 256)>>

\* 0x6d2b79f5
RngIncrement == <<27947, 31221>>

\* new SeededRng(seed): Number(seed) >>> 0
RngInit(s) == <<(s \div Half) % Half, s % Half>>

\* SeededRng.next(), line 36: t = Math.imul(t ^ (t >>> 15), t | 1)
Mix1(t) == Imul(Xor32(t, Shr32(t, 15)), OrLow(t, 1))

\* SeededRng.next(), line 37: t ^= t + Math.imul(t ^ (t >>> 7), t | 61)
Mix2(t) == Xor32(t, Add32(t, Imul(Xor32(t, Shr32(t, 7)), OrLow(t, 61))))

\* SeededRng.next(), line 38: the numerator (t ^ (t >>> 14)) >>> 0 of the result
Mix3(t) == Xor32(t, Shr32(t, 14))

\* SeededRng.next(): the new state and the 32-bit numerator of the result
RngNext(state) ==
    LET Result(s1) == [state |-> s1, value |-> Mix3(Mix2(Mix1(s1)))]
    IN  Result(Add32(state, RngIncrement))

\* Math.floor(next() * n) for the numerator u of next() = u / 2^32
FloorScale(u, n) == (u[1] * n + ((u[2] * n) \div Half)) \div Half

\* SeededRng.choice(values): the new state and the 1-based index chosen
RngChoice(state, n) ==
    LET Result(r) == [state |-> r.state, index |-> FloorScale(r.value, n) + 1]
    IN  Result(RngNext(state))

----------------------------------------------------------------------------
(* Program constants *)

\* LEVEL_RANK
LEVEL_RANK(level) ==
    CASE level = "beginner" -> 0
      [] level = "intermediate" -> 1
      [] level = "advanced" -> 2
      [] OTHER -> -1

\* LEVEL_RANK[String(difficulty || "intermediate").toLowerCase()] ?? 1
MovementLevel(m) ==
    LET r == LEVEL_RANK(Lower(IF m.difficulty = "" THEN "intermediate" ELSE m.difficulty))
    IN  IF r = -1 THEN 1 ELSE r

WOD_TYPES == <<"amrap", "for_time", "emom", "chipper", "interval">>

\* the window of pickBest: filtered.slice(0, Math.min(8, filtered.length))
TopWindow == 8

Min(a, b) == IF a < b THEN a ELSE b
Max(a, b) == IF a > b THEN a ELSE b

Range(seq) == {seq[i] : i \in DOMAIN seq}

----------------------------------------------------------------------------
(* Dates: parseIsoDate and the ordinal day *)

IsLeap(y) == (y % 4 = 0 /\ y % 100 # 0) \/ y % 400 = 0

DaysInMonth(y, m) ==
    CASE m \in {4, 6, 9, 11} -> 30
      [] m = 2 -> IF IsLeap(y) THEN 29 ELSE 28
      [] OTHER -> 31

\* Math.floor(Date.UTC(y, m - 1, d) / 86400000) for a date of the calendar
OrdinalDay(y, m, d) ==
    LET yy == IF m <= 2 THEN y - 1 ELSE y
        era == yy \div 400
        yoe == yy - era * 400
        mp == IF m > 2 THEN m - 3 ELSE m + 9
        doy == ((153 * mp + 2) \div 5) + d - 1
        doe == yoe * 365 + (yoe \div 4) - (yoe \div 100) + doy
    IN  era * 146097 + doe - 719468

NoDate == [kind |-> "none"]
IsoDate(y, m, d) == [kind |-> "iso", y |-> y, m |-> m, d |-> d]

\* parseIsoDate(String(session.date || "")): null (ok FALSE), or the ordinal day.
\* A date value is absent (kind "none"), a string that does not match
\* /^\d{4}-\d{2}-\d{2}$/ (kind "text"), or one that does (kind "iso").
parseIsoDate(value) ==
    IF value.kind # "iso" THEN [ok |-> FALSE]
    ELSE IF value.y < 100 \/ value.m \notin 1..12
            \/ value.d \notin 1..DaysInMonth(value.y, value.m)
         THEN [ok |-> FALSE]
         ELSE [ok |-> TRUE, ordinalDay |-> OrdinalDay(value.y, value.m, value.d)]

\* sessionInLookback dropping the sessions of the cutoff day itself
sessionInLookbackAfterCutoff(session, cutoffOrdinalDay) ==
    LET dateObj == parseIsoDate(session.date)
    IN  ~dateObj.ok \/ dateObj.ordinalDay > cutoffOrdinalDay

sessionInLookback(session, cutoffOrdinalDay) ==
    LET dateObj == parseIsoDate(session.date)
    IN  ~dateObj.ok \/ dateObj.ordinalDay >= cutoffOrdinalDay

----------------------------------------------------------------------------
(* movementMap and recentContext *)

\* movementMap(movements).get(key): the library index of the last movement
\* whose trimmed name is non-empty and lower-cases to key, or 0
byNameGet(lib, key) ==
    LET hits == {i \in DOMAIN lib : Trim(lib[i].name) # "" /\ Lower(Trim(lib[i].name)) = key}
    IN  IF hits = {} THEN 0 ELSE CHOOSE i \in hits : \A j \in hits : j <= i

\* the normalised patterns of a sequence of strings, entries whose trim is
\* empty skipped: the keys incrementCounter is called with, in order
RECURSIVE PatternKeysOf(_)
PatternKeysOf(seq) ==
    IF seq = <<>> THEN <<>>
    ELSE (IF Trim(Head(seq)) # "" THEN <<Norm(Head(seq))>> ELSE <<>>)
         \o PatternKeysOf(Tail(seq))

\* the increments caused by the movement names of one session, in order
RECURSIVE MovementIncrements(_, _)
MovementIncrements(names, lib) ==
    IF names = <<>> THEN <<>>
    ELSE LET normalizedName == Norm(Head(names))
             found == byNameGet(lib, normalizedName)
         IN  (IF normalizedName # "" /\ found # 0
              THEN PatternKeysOf(lib[found].patterns) ELSE <<>>)
             \o MovementIncrements(Tail(names), lib)

\* every call of incrementCounter over the history, in order
RECURSIVE Increments(_, _, _)
Increments(hist, lib, cutoff) ==
    IF hist = <<>> THEN <<>>
    ELSE (IF sessionInLookback(Head(hist), cutoff)
          THEN MovementIncrements(Head(hist).movements, lib)
               \o PatternKeysOf(Head(hist).patterns)
          ELSE <<>>)
         \o Increments(Tail(hist), lib, cutoff)

\* the keys of a Map in insertion order: first occurrences
RECURSIVE FirstOccurrences(_, _)
FirstOccurrences(seq, seen) ==
    IF seq = <<>> THEN <<>>
    ELSE IF Head(seq) \in seen THEN FirstOccurrences(Tail(seq), seen)
         ELSE <<Head(seq)>> \o FirstOccurrences(Tail(seq), seen \cup {Head(seq)})

\* recentContext(history, byName, lookbackDays), with the day todayOrdinalDay()
\* reads. patternCounter is the Map (its domain the keys set), patternOrder
\* its keys in insertion order.
recentContext(hist, lib, lookback, day) ==
    LET cutoffOrdinalDay == day - lookback
        counted == {i \in DOMAIN hist : sessionInLookback(hist[i], cutoffOrdinalDay)}
        incs == Increments(hist, lib, cutoffOrdinalDay)
    IN  [recentMovements |->
            {Norm(n) : n \in UNION {Range(hist[i].movements) : i \in counted}} \ {""},
         patternCounter |->
            [p \in Range(incs) |-> Cardinality({k \in DOMAIN incs : incs[k] = p})],
         patternOrder |-> FirstOccurrences(incs, {})]

\* patternCounter.get(pattern) || 0
CounterGet(counter, p) == IF p \in DOMAIN counter THEN counter[p] ELSE 0

----------------------------------------------------------------------------
(* canDoMovement, scoreMovement, rankCandidates *)

OptionalEquipment == {"none", "bodyweight"}

\* canDoMovement without the avoided-pattern test (lines 303-309 left out)
canDoMovementIgnoringPatterns(movement, prof, recent) ==
    LET levelRank == LEVEL_RANK(prof.fitness_level)
        movementLevel == MovementLevel(movement)
        allowSkillReach == prof.goal = "skill"
        requiredEquipment == asLowerSet(movement.equipment) \ OptionalEquipment
        availableEquipment == asLowerSet(prof.equipment_available)
        movementName == Norm(movement.name)
    IN  /\ ~(movementLevel > levelRank + (IF allowSkillReach THEN 1 ELSE 0))
        /\ \A item \in requiredEquipment : item \in availableEquipment
        /\ movementName \notin prof.limitations.avoid_movements
        /\ ~(prof.goal = "skill" /\ movementName \in recent)

canDoMovement(movement, prof, recent) ==
    LET levelRank == LEVEL_RANK(prof.fitness_level)
        movementLevel == MovementLevel(movement)
        allowSkillReach == prof.goal = "skill"
        requiredEquipment == asLowerSet(movement.equipment) \ OptionalEquipment
        availableEquipment == asLowerSet(prof.equipment_available)
        movementName == Norm(movement.name)
        movementPatterns == asLowerSet(Range(movement.patterns))
    IN  /\ ~(movementLevel > levelRank + (IF allowSkillReach THEN 1 ELSE 0))
        /\ \A item \in requiredEquipment : item \in availableEquipment
        /\ movementName \notin prof.limitations.avoid_movements
        /\ \A pattern \in movementPatterns : pattern \notin prof.limitations.avoid_patterns
        /\ ~(prof.goal = "skill" /\ movementName \in recent)

\* a penalty of 13 per counted pattern, whatever its count
PatternPenaltyFlat(patterns, counter) ==
    13 * Cardinality({p \in patterns : CounterGet(counter, p) > 0})

\* sum of 13 * count over a set of patterns (1.3 per count, in tenths)
RECURSIVE PatternPenalty(_, _)
PatternPenalty(patterns, counter) ==
    IF patterns = {} THEN 0
    ELSE LET p == CHOOSE x \in patterns : TRUE
         IN  13 * CounterGet(counter, p) + PatternPenalty(patterns \ {p}, counter)

\* scoreMovement, in tenths
scoreMovement(movement, prof, recent, counter) ==
    LET name == Norm(movement.name)
        modality == Norm(movement.modality)
        effects == asLowerSet(movement.effects)
        patterns == asLowerSet(Range(movement.patterns))
        levelRank == LEVEL_RANK(prof.fitness_level)
        movementLevel == MovementLevel(movement)
    IN  (IF prof.goal \in effects THEN 30 ELSE 0)
        + (IF prof.goal = "mixed" /\ Cardinality(effects) >= 2 THEN 10 ELSE 0)
        + (IF modality \in prof.preferred_modalities THEN 20 ELSE 0)
        - (IF name \in recent THEN 40 ELSE 0)
        - PatternPenalty(patterns, counter)
        + (IF movementLevel = levelRank THEN 10
           ELSE IF movementLevel < levelRank THEN 4 ELSE 0)
        + (IF prof.intensity = "low"
           THEN (IF "power" \in effects \/ modality = "weightlifting" THEN -10 ELSE 0)
           ELSE IF prof.intensity = "high"
                THEN (IF "power" \in effects \/ "engine" \in effects THEN 10 ELSE 0)
                ELSE 0)
        - (IF modality = "recovery" THEN 25 ELSE 0)

\* the comparator with its operands swapped (ascending by score)
compareRankedAscending(left, right) == left[2] - right[2]

\* the comparator of ranked.sort: negative when left stays before right
compareRanked(left, right) == right[2] - left[2]

\* Array.prototype.sort is stable: an entry is inserted after every entry
\* the comparator does not put behind it
RECURSIVE InsertRanked(_, _)
InsertRanked(sorted, entry) ==
    IF sorted = <<>> THEN <<entry>>
    ELSE IF compareRanked(Head(sorted), entry) <= 0
         THEN <<Head(sorted)>> \o InsertRanked(Tail(sorted), entry)
         ELSE <<entry>> \o sorted

RECURSIVE SortRanked(_)
SortRanked(seq) ==
    IF seq = <<>> THEN <<>>
    ELSE InsertRanked(SortRanked(SubSeq(seq, 1, Len(seq) - 1)), seq[Len(seq)])

\* the eligible library indexes with their scores, in library order
RECURSIVE Eligible(_, _, _, _, _)
Eligible(lib, i, prof, recent, counter) ==
    IF i > Len(lib) THEN <<>>
    ELSE (IF canDoMovement(lib[i], prof, recent)
          THEN << <<i, scoreMovement(lib[i], prof, recent, counter)>> >>
          ELSE <<>>)
         \o Eligible(lib, i + 1, prof, recent, counter)

rankCandidates(lib, prof, recent, counter) ==
    SortRanked(Eligible(lib, 1, prof, recent, counter))

----------------------------------------------------------------------------
(* pickBest and the blocks *)

NoBlock == [none |-> TRUE]

\* the end of pickBest choosing among all of the filtered list
ChooseAmongAll(filtered, lib, state, usedNames) ==
    LET Picked(chosen, newState) ==
            [chosen |-> chosen, rng |-> newState,
             used |-> usedNames \cup {Norm(lib[chosen].name)}]
        Choice(top, c) == Picked(top[c.index][1], c.state)
        Top(top) == Choice(top, RngChoice(state, Len(top)))
    IN  Top(filtered)

\* the end of pickBest and pickWarmup: rng.choice over the top of the
\* filtered list, the chosen name added to the used names
ChooseTop(filtered, lib, state, usedNames) ==
    LET Picked(chosen, newState) ==
            [chosen |-> chosen, rng |-> newState,
             used |-> usedNames \cup {Norm(lib[chosen].name)}]
        Choice(top, c) == Picked(top[c.index][1], c.state)
        Top(top) == Choice(top, RngChoice(state, Len(top)))
    IN  Top(SubSeq(filtered, 1, Min(TopWindow, Len(filtered))))

\* the default modalities = null of pickBest
NoModalities == {Null}

\* pickBest(ranked, rng, usedNames, modalities, includeRecovery); modalities
\* is a set, or NoModalities; chosen is a library index, or 0 for null
pickBest(rankedList, lib, state, usedNames, modalities, includeRecovery) ==
    LET keep(entry) ==
            LET name == Norm(lib[entry[1]].name)
                modality == Norm(lib[entry[1]].modality)
            IN  /\ ~(~includeRecovery /\ modality = "recovery")
                /\ name \notin usedNames
                /\ ~(modalities # NoModalities /\ modality \notin modalities)
        Pick(filtered) ==
            IF Len(filtered) = 0
            THEN [chosen |-> 0, rng |-> state, used |-> usedNames]
            ELSE ChooseTop(filtered, lib, state, usedNames)
    IN  Pick(SelectSeq(rankedList, keep))

\* pickWarmup(candidates) of buildWarmup
pickWarmup(rankedList, lib, state, usedNames, candidates) ==
    LET keep(entry) ==
            LET movement == lib[entry[1]]
                name == Norm(movement.name)
                modality == Norm(movement.modality)
                difficulty == Norm(IF movement.difficulty = "" THEN "intermediate"
                                   ELSE movement.difficulty)
                effects == asLowerSet(movement.effects)
            IN  /\ name \notin usedNames
                /\ modality \in candidates
                /\ ~(modality \in {"weightlifting", "odd-object"} /\ difficulty # "beginner")
                /\ ~("power" \in effects \/ "mental" \in effects)
                /\ ~Includes(name, "burpee")
        Pick(warmupFiltered) ==
            IF Len(warmupFiltered) = 0
            THEN pickBest(rankedList, lib, state, usedNames, candidates, FALSE)
            ELSE ChooseTop(warmupFiltered, lib, state, usedNames)
    IN  Pick(SelectSeq(rankedList, keep))

\* buildWarmup(ranked, used, rng, minutes): the block, the rng and the used names
buildWarmup(rankedList, lib, usedNames, state, minutes) ==
    LET Block(cyc, base1, base2) ==
            [block |->
                [duration_min |-> minutes,
                 movements |->
                    <<IF cyc.chosen # 0 THEN lib[cyc.chosen].name ELSE "easy cardio",
                      IF base1.chosen # 0 THEN lib[base1.chosen].name ELSE "air squat",
                      IF base2.chosen # 0 THEN lib[base2.chosen].name ELSE "plank">>,
                 easy_minutes |-> Max(3, minutes \div 2)],
             rng |-> base2.rng, used |-> base2.used]
        Third(cyc, base1) ==
            Block(cyc, base1,
                  pickWarmup(rankedList, lib, base1.rng, base1.used,
                             {"gymnastics", "recovery", "odd-object"}))
        Second(cyc) ==
            Third(cyc, pickWarmup(rankedList, lib, cyc.rng, cyc.used,
                                  {"gymnastics", "recovery"}))
    IN  Second(pickWarmup(rankedList, lib, state, usedNames, {"monostructural"}))

\* buildStrengthOrSkillBlock with the short-session test off by one (< 35)
buildStrengthOrSkillBlockBelow35(rankedList, lib, usedNames, state, prof, minutes) ==
    IF prof.goal = "engine" /\ prof.session_minutes < 35
    THEN [block |-> NoBlock, rng |-> state, used |-> usedNames]
    ELSE LET focus == IF prof.goal = "skill" THEN "skill" ELSE "strength"
             modalities == IF prof.goal = "skill" THEN {"gymnastics", "weightlifting"}
                           ELSE {"weightlifting", "odd-object"}
             Block(pick) ==
                 IF pick.chosen = 0
                 THEN [block |-> NoBlock, rng |-> pick.rng, used |-> pick.used]
                 ELSE [block |-> [focus |-> focus, duration_min |-> minutes,
                                  movement |-> lib[pick.chosen].name],
                       rng |-> pick.rng, used |-> pick.used]
         IN  Block(pickBest(rankedList, lib, state, usedNames, modalities, FALSE))

\* buildStrengthOrSkillBlock(ranked, used, rng, profile, minutes)
buildStrengthOrSkillBlock(rankedList, lib, usedNames, state, prof, minutes) ==
    IF prof.goal = "engine" /\ prof.session_minutes <= 35
    THEN [block |-> NoBlock, rng |-> state, used |-> usedNames]
    ELSE LET focus == IF prof.goal = "skill" THEN "skill" ELSE "strength"
             modalities == IF prof.goal = "skill" THEN {"gymnastics", "weightlifting"}
                           ELSE {"weightlifting", "odd-object"}
             Block(pick) ==
                 IF pick.chosen = 0
                 THEN [block |-> NoBlock, rng |-> pick.rng, used |-> pick.used]
                 ELSE [block |-> [focus |-> focus, duration_min |-> minutes,
                                  movement |-> lib[pick.chosen].name],
                       rng |-> pick.rng, used |-> pick.used]
         IN  Block(pickBest(rankedList, lib, state, usedNames, modalities, FALSE))

\* sessionBlockLengths(sessionMinutes)
sessionBlockLengths(sessionMinutes) ==
    IF sessionMinutes <= 30 THEN [warmup |-> 6, strength |-> 6, metcon |-> 12, cooldown |-> 4]
    ELSE IF sessionMinutes <= 45
         THEN [warmup |-> 8, strength |-> 10, metcon |-> 18, cooldown |-> 6]
    ELSE IF sessionMinutes <= 60
         THEN [warmup |-> 10, strength |-> 12, metcon |-> 24, cooldown |-> 8]
    ELSE [warmup |-> 12, strength |-> 15, metcon |-> 30, cooldown |-> 10]

\* chooseWodType drawing from all five types for every goal
chooseWodTypeAnyGoal(prof, state) ==
    IF prof.wod_type # Null /\ prof.wod_type # ""
    THEN [type |-> prof.wod_type, rng |-> state]
    ELSE LET Chosen(c) == [type |-> WOD_TYPES[c.index], rng |-> c.state]
         IN  Chosen(RngChoice(state, Len(WOD_TYPES)))

\* chooseWodType(profile, rng): the type and the rng
chooseWodType(prof, state) ==
    IF prof.wod_type # Null /\ prof.wod_type # ""
    THEN [type |-> prof.wod_type, rng |-> state]
    ELSE LET options ==
                 IF prof.goal = "engine" THEN <<"interval", "amrap", "for_time">>
                 ELSE IF prof.goal \in {"strength", "power"} THEN <<"emom", "for_time", "amrap">>
                 ELSE IF prof.goal = "skill" THEN <<"emom", "amrap", "interval">>
                 ELSE WOD_TYPES
             Chosen(c) == [type |-> options[c.index], rng |-> c.state]
         IN  Chosen(RngChoice(state, Len(options)))

MetconGroups == <<{"monostructural"}, {"gymnastics"}, {"weightlifting", "odd-object"}>>

AllActiveModalities == {"monostructural", "gymnastics", "weightlifting", "odd-object"}

\* the for loop of buildMetcon over the modality groups, from group g on
RECURSIVE MetconGroupPicks(_, _, _, _, _, _)
MetconGroupPicks(rankedList, lib, g, chosen, state, usedNames) ==
    IF g > Len(MetconGroups) THEN [chosen |-> chosen, rng |-> state, used |-> usedNames]
    ELSE LET Rest(choice) ==
                 MetconGroupPicks(rankedList, lib, g + 1,
                                  IF choice.chosen # 0 THEN Append(chosen, choice.chosen)
                                  ELSE chosen,
                                  choice.rng, choice.used)
         IN  Rest(pickBest(rankedList, lib, state, usedNames, MetconGroups[g], FALSE))

\* the while loop of buildMetcon that tops the selection up to targetCount
RECURSIVE MetconTopUp(_, _, _, _, _, _)
MetconTopUp(rankedList, lib, targetCount, chosen, state, usedNames) ==
    IF ~(Len(chosen) < targetCount) THEN [chosen |-> chosen, rng |-> state, used |-> usedNames]
    ELSE LET Rest(extra) ==
                 IF extra.chosen = 0
                 THEN [chosen |-> chosen, rng |-> extra.rng, used |-> extra.used]
                 ELSE MetconTopUp(rankedList, lib, targetCount, Append(chosen, extra.chosen),
                                  extra.rng, extra.used)
         IN  Rest(pickBest(rankedList, lib, state, usedNames, AllActiveModalities, FALSE))

\* the minutes of an EMOM: at least 4 per station and the block's minutes,
\* cut down to a multiple of the station count
emomMinutes(stationCount, minutes) ==
    LET Cut(m) == m - (m % stationCount)
    IN  Cut(Max(stationCount * 4, minutes))

\* buildMetcon(ranked, used, rng, profile, minutes); failed when it throws
buildMetcon(rankedList, lib, usedNames, state, prof, minutes) ==
    LET targetCount == IF prof.session_minutes > 45 THEN 4 ELSE 3
        Block(wodType, sel) ==
            IF Len(sel.chosen) = 0
            THEN [failed |-> TRUE, block |-> NoBlock, rng |-> sel.rng, used |-> sel.used]
            ELSE [failed |-> FALSE,
                  block |-> [type |-> wodType, duration_min |-> minutes,
                             movements |-> [i \in DOMAIN sel.chosen |-> lib[sel.chosen[i]].name],
                             emom_minutes |-> IF wodType = "emom"
                                              THEN emomMinutes(Len(sel.chosen), minutes)
                                              ELSE 0],
                  rng |-> sel.rng, used |-> sel.used]
        TopUp(wodType, groups) ==
            Block(wodType, MetconTopUp(rankedList, lib, targetCount, groups.chosen,
                                       groups.rng, groups.used))
        Groups(wod) ==
            TopUp(wod.type, MetconGroupPicks(rankedList, lib, 1, <<>>, wod.rng, usedNames))
    IN  Groups(chooseWodType(prof, state))

\* shuffle writing values[pick] to values[idx] without the exchange
RECURSIVE ShuffleOverwrite(_, _, _)
ShuffleOverwrite(values, idx, state) ==
    IF idx <= 1 THEN [values |-> values, rng |-> state]
    ELSE LET Swap(c) ==
                 ShuffleOverwrite([values EXCEPT ![idx] = values[c.index]], idx - 1, c.state)
         IN  Swap(RngChoice(state, idx))

\* SeededRng.shuffle(values): idx runs from the last position (1-based) down
RECURSIVE Shuffle(_, _, _)
Shuffle(values, idx, state) ==
    IF idx <= 1 THEN [values |-> values, rng |-> state]
    ELSE LET Swap(c) ==
                 Shuffle([values EXCEPT ![idx] = values[c.index], ![c.index] = values[idx]],
                         idx - 1, c.state)
         IN  Swap(RngChoice(state, idx))

DefaultCooldownNames == <<"Breathing walk", "Hip opener", "Thoracic opener">>

\* buildCooldown(movements, rng, minutes): the block and the rng
buildCooldown(lib, state, minutes) ==
    LET Block(selected) ==
            [duration_min |-> minutes,
             defaults |-> Len(selected) < 2,
             movements |-> IF Len(selected) < 2 THEN DefaultCooldownNames
                           ELSE <<selected[1].name, selected[2].name,
                                  "Down-regulation breathing">>]
        Result(sh) ==
            [block |-> Block(SubSeq(sh.values, 1, Min(2, Len(sh.values)))), rng |-> sh.rng]
        Shuffled(recoveryPool) == Result(Shuffle(recoveryPool, Len(recoveryPool), state))
    IN  Shuffled(SelectSeq(lib, LAMBDA movement : Lower(movement.modality) = "recovery"))

DefaultEasier == "Reduce reps and use controlled tempo"
DefaultHarder == "Increase load or reduce rest"

\* buildScalingNotes(chosenMovements, byName)
RECURSIVE buildScalingNotes(_, _)
buildScalingNotes(chosenMovements, lib) ==
    IF chosenMovements = <<>> THEN <<>>
    ELSE LET movementName == Head(chosenMovements)
             found == byNameGet(lib, Lower(movementName))
             variations == IF found = 0 THEN <<>>
                           ELSE SelectSeq(lib[found].variations, LAMBDA v : Trim(v) # "")
         IN  (IF found = 0 THEN <<>>
              ELSE <<[movement |-> movementName,
                      easier |-> IF Len(variations) > 0 THEN variations[1] ELSE DefaultEasier,
                      harder |-> IF Len(variations) > 0 THEN variations[Len(variations)]
                                 ELSE DefaultHarder]>>)
             \o buildScalingNotes(Tail(chosenMovements), lib)

\* fatigueSummary(patternCounter): the five largest counts, ties in insertion order
fatigueSummary(counter, order) ==
    LET entries == [i \in DOMAIN order |-> <<order[i], counter[order[i]]>>]
        sorted == SortRanked(entries)
    IN  SubSeq(sorted, 1, Min(5, Len(sorted)))

----------------------------------------------------------------------------
(* buildPlan as a function of its arguments and of the day it runs on *)

NoPlan == [noplan |-> TRUE]
NoMatchError == "No movements match the current equipment/level/limitations. Relax constraints and retry."
NoMetconError == "No eligible movements remain for metcon after constraints."

\* the Plan record buildPlan returns
MakePlan(prof, lib, lookback, sd, ctx, w, s, m, c) ==
    LET selectedForScaling ==
            w.movements \o m.movements \o (IF s # NoBlock THEN <<s.movement>> ELSE <<>>)
    IN  [seed |-> sd, profile |-> prof,
         context |-> [lookback_days |-> lookback,
                      recent_movements |-> ctx.recentMovements,
                      recent_fatigue_patterns |->
                          fatigueSummary(ctx.patternCounter, ctx.patternOrder)],
         warmup |-> w, strength_or_skill |-> s, metcon |-> m, cooldown |-> c,
         scaling |-> buildScalingNotes(selectedForScaling, lib)]

\* buildPlan(profile, history, movements, lookbackDays, seed) run on the given
\* day: the Plan returned, or NoPlan and the error thrown
buildPlan(prof, hist, lib, lookback, sd, day) ==
    LET lengths == sessionBlockLengths(prof.session_minutes)
        Returned(ctx, w, s, m, c) ==
            [plan |-> MakePlan(prof, lib, lookback, sd, ctx, w.block, s.block, m.block, c.block),
             error |-> ""]
        AfterMetcon(ctx, w, s, m) ==
            IF m.failed THEN [plan |-> NoPlan, error |-> NoMetconError]
            ELSE Returned(ctx, w, s, m, buildCooldown(lib, m.rng, lengths.cooldown))
        AfterStrength(ctx, rk, w, s) ==
            AfterMetcon(ctx, w, s, buildMetcon(rk, lib, s.used, s.rng, prof, lengths.metcon))
        AfterWarmup(ctx, rk, w) ==
            AfterStrength(ctx, rk, w,
                          buildStrengthOrSkillBlock(rk, lib, w.used, w.rng, prof,
                                                    lengths.strength))
        AfterRank(ctx, rk) ==
            IF Len(rk) = 0 THEN [plan |-> NoPlan, error |-> NoMatchError]
            ELSE AfterWarmup(ctx, rk, buildWarmup(rk, lib, {}, RngInit(sd), lengths.warmup))
        AfterContext(ctx) ==
            AfterRank(ctx, rankCandidates(lib, prof, ctx.recentMovements, ctx.patternCounter))
    IN  AfterContext(recentContext(hist, lib, lookback, day))

----------------------------------------------------------------------------
(* The inputs buildPlan is run on *)

Movement(n, mod, pats, diff, eff, eq, vars_) ==
    [name |-> n, modality |-> mod, patterns |-> pats, difficulty |-> diff,
     effects |-> eff, equipment |-> eq, variations |-> vars_]

\* the catalogue libraries are cut from, in library order
Pool ==
    << Movement("Run", "monostructural", <<"locomotion">>, "beginner", {"Engine"},
                {"none"}, <<"walk", "jog", "sprint">>),
       Movement("row", "monostructural", <<"pull">>, "beginner", {"engine", "power"},
                {"rower"}, <<"easy row">>),
       Movement("plank", "gymnastics", <<" core", "core">>, "beginner", {"skill"},
                {"bodyweight"}, <<>>),
       Movement("deadlift", "weightlifting", <<"hinge">>, "intermediate", {"strength"},
                {"Barbell"}, <<"kettlebell deadlift", " ", "deficit deadlift">>),
       Movement("sandbag carry", "odd-object", <<"carry", "core">>, "beginner",
                {"strength", "engine"}, {"none"}, <<"light carry", "heavy carry">>),
       Movement("couch stretch", "recovery", <<"squat">>, "beginner", {},
                {"none"}, <<>>),
       Movement("foam roll", "recovery", <<"core">>, "beginner", {},
                {"foam roller"}, <<>>) >>

\* the subsequence of Pool at the positions of a set, in Pool order
RECURSIVE PoolAt(_)
PoolAt(positions) ==
    IF positions = {} THEN <<>>
    ELSE LET last == CHOOSE i \in positions : \A j \in positions : j <= i
         IN  Append(PoolAt(positions \ {last}), Pool[last])

\* main() refuses an empty library
Libraries ==
    {PoolAt(ps) : ps \in {x \in SUBSET DOMAIN Pool : Cardinality(x) \in 1..MaxLib}}

Goals == {"engine", "strength", "skill", "mixed", "power"}

DefaultModalities == {"monostructural", "gymnastics", "weightlifting", "odd-object"}

\* a profile as mergeProfile returns it
BaseProfile(g, minutes, w) ==
    [goal |-> g, fitness_level |-> "intermediate", session_minutes |-> minutes,
     equipment_available |-> {"barbell", "none", "rower"},
     limitations |-> [avoid_patterns |-> {}, avoid_movements |-> {}],
     preferred_modalities |-> DefaultModalities, wod_type |-> w, intensity |-> "moderate"]

Limited(g) == BaseProfile(g, 60, Null)

Profiles ==
    {BaseProfile(g, minutes, Null) : g \in Goals, minutes \in {35, 36, 60}}
    \cup {BaseProfile(g, 60, "emom") : g \in Goals}
    \cup {[Limited(g) EXCEPT !.fitness_level = "beginner"] : g \in {"mixed", "skill"}}
    \cup {[Limited(g) EXCEPT !.equipment_available = {"none"}] : g \in {"mixed", "skill"}}
    \cup {[Limited(g) EXCEPT !.limitations.avoid_patterns = {"core"}] : g \in {"mixed", "skill"}}
    \cup {[Limited(g) EXCEPT !.limitations.avoid_movements = {"plank", "run"}] : g \in {"mixed", "skill"}}
    \cup {[Limited("mixed") EXCEPT !.intensity = i] : i \in {"low", "high"}}
    \cup {[Limited("mixed") EXCEPT !.preferred_modalities = {"recovery"}]}

Session(d, names, pats) == [date |-> d, movements |-> names, patterns |-> pats]

LastSession == Session(IsoDate(2026, 10, 31), <<"plank", "Run">>, <<"hinge">>)

\* a history and the day the run happens on: no history, a session of the
\* day before, the same session three days later
Runs ==
    { [history |-> <<>>, today |-> OrdinalDay(2026, 11, 1)],
      [history |-> <<LastSession>>, today |-> OrdinalDay(2026, 11, 1)],
      [history |-> <<LastSession>>, today |-> OrdinalDay(2026, 11, 3)] }

\* main(): Math.max(1, args.historyDays), 2 by default
Lookbacks == {2}

Seeds == 0..MaxSeed

----------------------------------------------------------------------------
(* The run of buildPlan, statement by statement *)

Init ==
    /\ profile \in Profiles
    /\ \E r \in Runs : history = r.history /\ today = r.today
    /\ movements \in Libraries
    /\ lookbackDays \in Lookbacks
    /\ seed \in Seeds
    /\ pc = "start"
    /\ rng = RngInit(seed)
    /\ recentMovements = {}
    /\ patternCounter = <<>>
    /\ ranked = <<>>
    /\ used = {}
    /\ warmup = NoBlock
    /\ strengthOrSkill = NoBlock
    /\ metcon = NoBlock
    /\ cooldown = NoBlock
    /\ plan = NoPlan
    /\ error = ""
    /\ call = NoCall
    /\ returned = NoCall

blocks == sessionBlockLengths(profile.session_minutes)

\* the first step of buildPlan without the test of lines 787-789
RankWithoutCheck ==
    /\ pc = "start"
    /\ LET Ranked(ctx, rk) ==
               /\ recentMovements' = ctx.recentMovements
               /\ patternCounter' = ctx.patternCounter
               /\ ranked' = rk
           Context(ctx) ==
               Ranked(ctx, rankCandidates(movements, profile, ctx.recentMovements,
                                          ctx.patternCounter))
       IN  Context(recentContext(history, movements, lookbackDays, today))
    /\ pc' = "warmup"
    /\ UNCHANGED <<inputs, unit, rng, used, warmup, strengthOrSkill, metcon, cooldown, plan, error>>

\* lines 783-789: movementMap, recentContext, rankCandidates, the empty check
Rank ==
    /\ pc = "start"
    /\ LET Ranked(ctx, rk) ==
               /\ recentMovements' = ctx.recentMovements
               /\ patternCounter' = ctx.patternCounter
               /\ ranked' = rk
               /\ IF Len(rk) = 0
                  THEN pc' = "failed" /\ error' = NoMatchError
                  ELSE pc' = "warmup" /\ error' = error
           Context(ctx) ==
               Ranked(ctx, rankCandidates(movements, profile, ctx.recentMovements,
                                          ctx.patternCounter))
       IN  Context(recentContext(history, movements, lookbackDays, today))
    /\ UNCHANGED <<inputs, unit, rng, used, warmup, strengthOrSkill, metcon, cooldown, plan>>

\* line 794
Warmup ==
    /\ pc = "warmup"
    /\ LET Built(w) == warmup' = w.block /\ rng' = w.rng /\ used' = w.used
       IN  Built(buildWarmup(ranked, movements, used, rng, blocks.warmup))
    /\ pc' = "strength"
    /\ UNCHANGED <<inputs, unit, recentMovements, patternCounter, ranked, strengthOrSkill,
                   metcon, cooldown, plan, error>>

\* line 795
Strength ==
    /\ pc = "strength"
    /\ LET Built(s) == strengthOrSkill' = s.block /\ rng' = s.rng /\ used' = s.used
       IN  Built(buildStrengthOrSkillBlock(ranked, movements, used, rng, profile,
                                           blocks.strength))
    /\ pc' = "metcon"
    /\ UNCHANGED <<inputs, unit, recentMovements, patternCounter, ranked, warmup,
                   metcon, cooldown, plan, error>>

\* the metcon step with the throw of lines 622-624 swallowed
MetconWithoutThrow ==
    /\ pc = "metcon"
    /\ LET Built(m) == metcon' = m.block /\ rng' = m.rng /\ used' = m.used
       IN  Built(buildMetcon(ranked, movements, used, rng, profile, blocks.metcon))
    /\ pc' = "cooldown"
    /\ UNCHANGED <<inputs, unit, recentMovements, patternCounter, ranked, warmup,
                   strengthOrSkill, cooldown, plan, error>>

\* line 796
Metcon ==
    /\ pc = "metcon"
    /\ LET Built(m) ==
               /\ metcon' = m.block /\ rng' = m.rng /\ used' = m.used
               /\ IF m.failed
                  THEN pc' = "failed" /\ error' = NoMetconError
                  ELSE pc' = "cooldown" /\ error' = error
       IN  Built(buildMetcon(ranked, movements, used, rng, profile, blocks.metcon))
    /\ UNCHANGED <<inputs, unit, recentMovements, patternCounter, ranked, warmup,
                   strengthOrSkill, cooldown, plan>>

\* line 797
Cooldown ==
    /\ pc = "cooldown"
    /\ LET Built(c) == cooldown' = c.block /\ rng' = c.rng
       IN  Built(buildCooldown(movements, rng, blocks.cooldown))
    /\ pc' = "return"
    /\ UNCHANGED <<inputs, unit, recentMovements, patternCounter, ranked, used, warmup,
                   strengthOrSkill, metcon, plan, error>>

\* lines 799-817: the scaling notes and the Plan returned
Return ==
    /\ pc = "return"
    /\ plan' = MakePlan(profile, movements, lookbackDays, seed,
                        [recentMovements |-> recentMovements,
                         patternCounter |-> patternCounter,
                         patternOrder |-> recentContext(history, movements, lookbackDays,
                                                        today).patternOrder],
                        warmup, strengthOrSkill, metcon, cooldown)
    /\ pc' = "done"
    /\ UNCHANGED <<inputs, unit, rng, recentMovements, patternCounter, ranked, used, warmup,
                   strengthOrSkill, metcon, cooldown, error>>

Next == Rank \/ Warmup \/ Strength \/ Metcon \/ Cooldown \/ Return

Spec == Init /\ [][Next]_vars

----------------------------------------------------------------------------
(* Properties *)

\* the names of the three active blocks of a Plan, in block order
SessionNames(p) ==
    p.warmup.movements
    \o (IF p.strength_or_skill # NoBlock THEN <<p.strength_or_skill.movement>> ELSE <<>>)
    \o p.metcon.movements

NoDuplicates(seq) == \A i, j \in DOMAIN seq : i # j => seq[i] # seq[j]

\* the stepwise run returns what buildPlan returns on the day of the run
StepsAgreeWithBuildPlan ==
    pc \in {"done", "failed"} =>
        buildPlan(profile, history, movements, lookbackDays, seed, today)
            = [plan |-> plan, error |-> error]

\* C1: in every returned Plan no movement name appears twice across the
\* warm-up, strength/skill and metcon name lists, the warm-up's fixed
\* fallback names included.
C1_NoIntraSessionRepeats ==
    pc = "done" => NoDuplicates(SessionNames(plan))

\* the days the runs of the model happen on
RunDays == {r.today : r \in Runs}

\* C2: buildPlan is a function of its five arguments: a run on any other
\* day with the same (profile, history, library, window, seed) returns the
\* same Plan, or fails with the same error.
C2_FunctionOfArguments ==
    pc \in {"done", "failed"} =>
        \A day \in RunDays :
            buildPlan(profile, history, movements, lookbackDays, seed, day)
                = [plan |-> plan, error |-> error]

\* the library indexes of a ranked list
RankedIndexes(rk) == {rk[k][1] : k \in DOMAIN rk}

\* C3: every ranked movement needs only available equipment (apart from
\* "none"/"bodyweight"), is not an avoided movement and carries no avoided
\* pattern; and every library movement that passes canDoMovement is ranked.
C3_RankedAreEligible ==
    pc # "start" =>
        /\ \A k \in DOMAIN ranked :
              LET M == movements[ranked[k][1]]
              IN  /\ \A tag \in M.equipment :
                        Norm(tag) \in profile.equipment_available \cup {"", "none", "bodyweight"}
                  /\ Norm(M.name) \notin profile.limitations.avoid_movements
                  /\ \A tag \in Range(M.patterns) :
                        Norm(tag) \notin profile.limitations.avoid_patterns
        /\ \A i \in DOMAIN movements :
              canDoMovement(movements[i], profile, recentMovements)
                  => i \in RankedIndexes(ranked)

\* C3 witness: a ranking that kept a movement needing equipment and dropped
\* another movement of the library
C3_Witness ==
    /\ pc = "warmup"
    /\ \E k \in DOMAIN ranked :
          asLowerSet(movements[ranked[k][1]].equipment) \ OptionalEquipment # {}
    /\ \E i \in DOMAIN movements : i \notin RankedIndexes(ranked)
    /\ profile.limitations.avoid_patterns # {}

\* the names of every block of a Plan, the cooldown included
AllPlanNames(p) == Range(SessionNames(p)) \cup Range(p.cooldown.movements)

\* C4: a library movement that fails canDoMovement appears in no block of the
\* returned Plan, the cooldown included.
C4_IneligibleNeverAppear ==
    pc = "done" =>
        \A i \in DOMAIN movements :
            ~canDoMovement(movements[i], profile, recentMovements)
                => movements[i].name \notin AllPlanNames(plan)

\* C5: the ranked list holds exactly the eligible movements, each once, with
\* its score, in descending order of score, equal scores in library order.
C5_StableDescendingRanking ==
    pc # "start" =>
        /\ RankedIndexes(ranked)
              = {i \in DOMAIN movements : canDoMovement(movements[i], profile, recentMovements)}
        /\ Cardinality(RankedIndexes(ranked)) = Len(ranked)
        /\ \A k \in DOMAIN ranked :
              ranked[k][2] = scoreMovement(movements[ranked[k][1]], profile,
                                           recentMovements, patternCounter)
        /\ \A i, j \in DOMAIN ranked :
              i < j => /\ ranked[i][2] >= ranked[j][2]
                       /\ ranked[i][2] = ranked[j][2] => ranked[i][1] < ranked[j][1]

\* C5 witness: a ranking with a tie and with a pair the sort moved out of
\* library order
C5_Witness ==
    /\ pc = "warmup"
    /\ \E i, j \in DOMAIN ranked : i < j /\ ranked[i][2] = ranked[j][2]
    /\ \E i, j \in DOMAIN ranked : i < j /\ ranked[i][1] > ranked[j][1]

\* the counter with the count of pattern p set to n
WithCount(counter, p, n) ==
    [q \in DOMAIN counter \cup {p} |-> IF q = p THEN n ELSE counter[q]]

NothingBuilt ==
    /\ warmup = NoBlock /\ strengthOrSkill = NoBlock
    /\ metcon = NoBlock /\ cooldown = NoBlock

NoneEligible ==
    \A i \in DOMAIN movements : ~canDoMovement(movements[i], profile, recentMovements)

\* C7: when no library movement passes canDoMovement, buildPlan fails with
\* the "no movements match" error, with no block built, the random source
\* not advanced and no Plan returned.
C7_NoEligibleFails ==
    /\ (pc # "start" /\ NoneEligible) =>
            /\ pc = "failed" /\ error = NoMatchError /\ plan = NoPlan
            /\ NothingBuilt /\ rng = RngInit(seed) /\ used = {}
    /\ error = NoMatchError => (pc = "failed" /\ NoneEligible)

\* C7 witness: the run failed on a library whose every pattern is avoided or
\* whose movements are otherwise out of reach
C7_Witness ==
    pc = "failed" /\ error = NoMatchError /\ Len(movements) >= 2

\* no ranked movement outside recovery is left unused
NoActiveLeft ==
    \A k \in DOMAIN ranked :
        \/ Norm(movements[ranked[k][1]].modality) = "recovery"
        \/ Norm(movements[ranked[k][1]].name) \in used

CompletePlan(p) ==
    /\ p # NoPlan
    /\ p.warmup # NoBlock /\ p.metcon # NoBlock /\ p.cooldown # NoBlock
    /\ Len(p.metcon.movements) > 0

\* C8: buildPlan returns a Plan with warm-up, metcon (non-empty) and cooldown,
\* or throws and returns nothing; with a non-empty ranking it throws exactly
\* when no unused ranked movement outside recovery is left for the metcon.
C8_AllOrNothing ==
    /\ [](/\ pc = "done" => (CompletePlan(plan) /\ error = "")
          /\ pc # "done" => plan = NoPlan
          /\ pc = "failed" => error \in {NoMatchError, NoMetconError}
          /\ error # "" => pc = "failed")
    /\ [][pc = "metcon" =>
            /\ Len(ranked) > 0
            /\ (pc' = "failed") <=> NoActiveLeft
            /\ (pc' = "failed") <=> (error' = NoMetconError)
            /\ (pc' = "failed") <=> (metcon' = NoBlock)]_vars

\* C8 witness: the metcon threw after the warm-up and the strength block
\* had been built
C8_Witness ==
    /\ pc = "failed" /\ error = NoMetconError
    /\ warmup # NoBlock /\ strengthOrSkill # NoBlock /\ plan = NoPlan

FocusModalities(goal) ==
    IF goal = "skill" THEN {"gymnastics", "weightlifting"} ELSE {"weightlifting", "odd-object"}

\* an unused ranked movement of the focus modalities exists
FocusCandidateLeft ==
    \E k \in DOMAIN ranked :
        /\ Norm(movements[ranked[k][1]].modality) \in FocusModalities(profile.goal)
        /\ Norm(movements[ranked[k][1]].name) \notin used

ShortEngine == profile.goal = "engine" /\ profile.session_minutes <= 35

\* C9: the strength/skill block is null when goal = "engine" and
\* session_minutes <= 35, with the random source and the used names left
\* alone; otherwise it is null only if no unused ranked movement of the focus
\* modalities is left after the warm-up; a block has focus "skill" iff the
\* goal is "skill", and its movement is of the focus modalities; the Plan
\* returns the block as built.
C9_StrengthOrSkillBlock ==
    [][/\ pc = "strength" =>
            /\ ShortEngine => (strengthOrSkill' = NoBlock /\ rng' = rng /\ used' = used)
            /\ (~ShortEngine /\ strengthOrSkill' = NoBlock) => ~FocusCandidateLeft
            /\ strengthOrSkill' # NoBlock =>
                  /\ (strengthOrSkill'.focus = "skill") <=> (profile.goal = "skill")
                  /\ strengthOrSkill'.focus \in {"skill", "strength"}
                  /\ \E k \in DOMAIN ranked :
                        /\ movements[ranked[k][1]].name = strengthOrSkill'.movement
                        /\ Norm(movements[ranked[k][1]].modality)
                               \in FocusModalities(profile.goal)
       /\ pc' = "done" => plan'.strength_or_skill = strengthOrSkill]_vars

\* C9 witness: a short engine session skipped the block although a
\* weightlifting or odd-object movement was still unused
C9_Witness ==
    /\ pc = "metcon" /\ ShortEngine /\ strengthOrSkill = NoBlock /\ FocusCandidateLeft

\* the metcon types chooseWodType draws from for a goal
GoalWodTypes(goal) ==
    CASE goal = "engine" -> {"interval", "amrap", "for_time"}
      [] goal \in {"strength", "power"} -> {"emom", "for_time", "amrap"}
      [] goal = "skill" -> {"emom", "amrap", "interval"}
      [] OTHER -> Range(WOD_TYPES)

\* C10: the metcon type of a returned Plan is the profile's wod_type when
\* set, else one of the goal's candidate types; it is always one of the five
\* known types.
C10_MetconType ==
    pc = "done" =>
        /\ plan.metcon.type \in {"amrap", "for_time", "emom", "chipper", "interval"}
        /\ profile.wod_type # Null => plan.metcon.type = profile.wod_type
        /\ profile.wod_type = Null => plan.metcon.type \in GoalWodTypes(profile.goal)

\* C10 witness: a Plan whose type was drawn for the goal, where the profile
\* names none
C10_Witness ==
    /\ pc = "done" /\ profile.wod_type = Null /\ profile.goal = "engine"
    /\ plan.metcon.type \in {"interval", "amrap", "for_time"}

----------------------------------------------------------------------------
(* buildCooldown called on its own *)

\* the catalogue the cooldown libraries are drawn from
CooldownPool ==
    { Movement("couch stretch", "recovery", <<"squat">>, "beginner", {}, {"none"}, <<>>),
      Movement("foam roll", "recovery", <<"core">>, "beginner", {}, {"foam roller"}, <<>>),
      Movement("child pose", "Recovery", <<"hinge">>, "beginner", {}, {"none"}, <<>>),
      Movement("box breathing", "recovery", <<>>, "beginner", {}, {"none"}, <<>>),
      Movement("Run", "monostructural", <<"locomotion">>, "beginner", {"Engine"},
               {"none"}, <<"walk", "jog", "sprint">>) }

\* the sequences of n different elements of a set
InjectiveSeqs(S, n) ==
    {q \in [1..n -> S] : \A i, j \in 1..n : q[i] = q[j] => i = j}

CooldownLibraries == UNION {InjectiveSeqs(CooldownPool, n) : n \in 0..MaxCooldownLib}

\* buildPlan about to call buildCooldown (line 796), on any library
InitCooldown ==
    /\ profile = BaseProfile("mixed", 60, Null)
    /\ history = <<>> /\ today = OrdinalDay(2026, 11, 1)
    /\ movements \in CooldownLibraries
    /\ lookbackDays \in Lookbacks
    /\ seed \in Seeds
    /\ pc = "cooldown"
    /\ rng = RngInit(seed)
    /\ recentMovements = {}
    /\ patternCounter = <<>>
    /\ ranked = <<>>
    /\ used \in {{}, {"couch stretch"}}
    /\ warmup = NoBlock
    /\ strengthOrSkill = NoBlock
    /\ metcon = NoBlock
    /\ cooldown = NoBlock
    /\ plan = NoPlan
    /\ error = ""
    /\ call = NoCall
    /\ returned = NoCall

SpecCooldown == InitCooldown /\ [][Cooldown]_vars

\* the library positions of modality "recovery", as buildCooldown reads it
RecoveryPositions == {i \in DOMAIN movements : Lower(movements[i].modality) = "recovery"}

IsPermutation(a, b) ==
    /\ Len(a) = Len(b)
    /\ \E f \in [DOMAIN a -> DOMAIN b] :
          /\ \A i, j \in DOMAIN a : f[i] = f[j] => i = j
          /\ \A i \in DOMAIN a : a[i] = b[f[i]]

\* C11: buildCooldown gives the fixed default items and names exactly when
\* the library holds fewer than two recovery movements; otherwise it names
\* two different recovery entries of the library, the first two of the
\* shuffled pool (a permutation of the pool), then the breathing closer; the
\* used names are left alone.
C11_CooldownSelection ==
    /\ [](pc = "return" =>
            LET pool == SelectSeq(movements, LAMBDA m : Lower(m.modality) = "recovery")
                shuffled == Shuffle(pool, Len(pool), RngInit(seed)).values
            IN  /\ cooldown.defaults <=> Cardinality(RecoveryPositions) < 2
                /\ cooldown.defaults => cooldown.movements = DefaultCooldownNames
                /\ ~cooldown.defaults =>
                      /\ Len(cooldown.movements) = 3
                      /\ \E i, j \in RecoveryPositions :
                            /\ i # j
                            /\ cooldown.movements[1] = movements[i].name
                            /\ cooldown.movements[2] = movements[j].name
                      /\ cooldown.movements[3] = "Down-regulation breathing"
                      /\ IsPermutation(shuffled, pool)
                      /\ cooldown.movements[1] = shuffled[1].name
                      /\ cooldown.movements[2] = shuffled[2].name)
    /\ [][pc = "cooldown" => used' = used]_vars

\* C11 witness: out of three or more recovery movements the cooldown names
\* two, the first of them not the first of the library, with names in use
C11_Witness ==
    /\ pc = "return" /\ ~cooldown.defaults /\ used # {}
    /\ Cardinality(RecoveryPositions) >= 3
    /\ \E i, j \in RecoveryPositions : i < j /\ cooldown.movements[1] = movements[j].name

----------------------------------------------------------------------------
(* mergeProfile called on its own: JSON values and their conversions *)

\* JSON values carry their type; an object is its own properties
JStr(str) == [kind |-> "string", str |-> str]
JNum(num) == [kind |-> "number", num |-> num]
JList(items) == [kind |-> "list", items |-> items]
JObj(fields) == [kind |-> "object", fields |-> fields]
JNull == [kind |-> "null"]
JUndefined == [kind |-> "undefined"]

\* obj[key]
JGet(obj, key) == IF key \in DOMAIN obj.fields THEN obj.fields[key] ELSE JUndefined

\* the truthiness `value || fallback` tests
Truthy(v) ==
    CASE v.kind = "string" -> v.str # ""
      [] v.kind = "number" -> v.num # 0
      [] v.kind \in {"list", "object"} -> TRUE
      [] OTHER -> FALSE

\* Number.prototype.toString on the numbers the model uses
NumString(n) ==
    CASE n = 30 -> "30"
      [] n = 500 -> "500"
      [] n = 5 -> "5"
      [] n = -10 -> "-10"
      [] OTHER -> "0"

NoString == [ok |-> FALSE]

\* String(value): ToPrimitive of an object calls its toString (then valueOf);
\* an own property "toString" of a JSON object is never callable and
\* Object.prototype.valueOf returns the object, so the conversion throws
\* a TypeError
StringOf(v) ==
    CASE v.kind = "string" -> [ok |-> TRUE, str |-> v.str]
      [] v.kind = "number" -> [ok |-> TRUE, str |-> NumString(v.num)]
      [] v.kind = "null" -> [ok |-> TRUE, str |-> "null"]
      [] v.kind = "undefined" -> [ok |-> TRUE, str |-> "undefined"]
      [] v.kind = "list" ->
            IF Len(v.items) = 0 THEN [ok |-> TRUE, str |-> ""]
            ELSE IF Len(v.items) = 1 /\ v.items[1].kind = "string"
                 THEN [ok |-> TRUE, str |-> v.items[1].str]
                 ELSE [ok |-> TRUE, str |-> "(joined)"]
      [] v.kind = "object" ->
            IF "toString" \in DOMAIN v.fields THEN NoString
            ELSE [ok |-> TRUE, str |-> "[object Object]"]

NaN == [finite |-> FALSE]

\* Number.parseInt(text, 10) on the strings the model uses
ParseIntString(str) ==
    CASE str \in {"30", "30.9", "30 min"} -> [finite |-> TRUE, num |-> 30]
      [] str = "500" -> [finite |-> TRUE, num |-> 500]
      [] str = "5" -> [finite |-> TRUE, num |-> 5]
      [] str = "-10" -> [finite |-> TRUE, num |-> -10]
      [] str = "0" -> [finite |-> TRUE, num |-> 0]
      [] OTHER -> NaN

\* asLowerSet(values) of a JSON value: empty unless it is a list; only its
\* strings count
asLowerSetJson(v) ==
    IF v.kind # "list" THEN {}
    ELSE asLowerSet({v.items[i].str : i \in {j \in DOMAIN v.items : v.items[j].kind = "string"}})

\* DEFAULT_PROFILE as a JSON object
DEFAULT_PROFILE ==
    [goal |-> JStr("mixed"), fitness_level |-> JStr("intermediate"),
     session_minutes |-> JNum(45), equipment_available |-> JList(<<JStr("none")>>),
     limitations |-> JObj([avoid_patterns |-> JList(<<>>), avoid_movements |-> JList(<<>>)]),
     preferred_modalities |-> JList(<<JStr("monostructural"), JStr("gymnastics"),
                                      JStr("weightlifting"), JStr("odd-object")>>),
     wod_type |-> JNull, intensity |-> JStr("moderate")]

\* value || fallback
OrElse(v, fallback) == IF Truthy(v) THEN v ELSE fallback

\* String(value || fallback).trim().toLowerCase(), kept if allowed
EnumField(v, fallback, allowed) ==
    LET Checked(conv) ==
            IF ~conv.ok THEN [ok |-> FALSE]
            ELSE [ok |-> TRUE,
                  value |-> IF Norm(conv.str) \in allowed THEN Norm(conv.str) ELSE fallback]
    IN  Checked(StringOf(OrElse(v, JStr(fallback))))

\* Number.parseInt(value, 10), 45 unless finite, clamped to [20, 120]
MinutesField(v) ==
    LET Clamped(parsed) == Max(20, Min(120, IF parsed.finite THEN parsed.num ELSE 45))
        Checked(conv) ==
            IF ~conv.ok THEN [ok |-> FALSE]
            ELSE [ok |-> TRUE, value |-> Clamped(ParseIntString(conv.str))]
    IN  Checked(StringOf(v))

ValidModalities == {"monostructural", "gymnastics", "weightlifting", "odd-object", "recovery"}

MergeFailed == [failed |-> TRUE, error |-> "TypeError: Cannot convert object to primitive value"]

\* mergeProfile(rawProfile): the normalised profile, or the TypeError thrown.
\* The sorted arrays sortedListFromSet builds from a Set are kept as sets.
mergeProfile(rawProfile) ==
    LET Field(key) == IF key \in DOMAIN rawProfile.fields THEN rawProfile.fields[key]
                      ELSE DEFAULT_PROFILE[key]
        level == EnumField(Field("fitness_level"), "intermediate",
                           {"beginner", "intermediate", "advanced"})
        goal == EnumField(Field("goal"), "mixed",
                          {"engine", "strength", "skill", "mixed", "power"})
        intensity == EnumField(Field("intensity"), "moderate", {"low", "moderate", "high"})
        minutes == MinutesField(Field("session_minutes"))
        limitations == IF Field("limitations").kind = "object" THEN Field("limitations")
                       ELSE JObj(<<>>)
        preferredModalities ==
            asLowerSetJson(OrElse(Field("preferred_modalities"), JList(<<>>)))
                \cap ValidModalities
        wodType == Field("wod_type")
    IN  IF ~level.ok \/ ~goal.ok \/ ~intensity.ok \/ ~minutes.ok THEN MergeFailed
        ELSE [failed |-> FALSE,
              profile |->
                [goal |-> goal.value, fitness_level |-> level.value,
                 session_minutes |-> minutes.value,
                 equipment_available |->
                     asLowerSetJson(OrElse(Field("equipment_available"),
                                           JList(<<JStr("none")>>))) \cup {"none"},
                 limitations |->
                     [avoid_patterns |->
                          asLowerSetJson(OrElse(JGet(limitations, "avoid_patterns"), JList(<<>>))),
                      avoid_movements |->
                          asLowerSetJson(OrElse(JGet(limitations, "avoid_movements"), JList(<<>>)))],
                 preferred_modalities |->
                     IF preferredModalities # {} THEN preferredModalities
                     ELSE {"monostructural", "gymnastics", "weightlifting", "odd-object"},
                 wod_type |-> IF wodType.kind = "string" /\ Norm(wodType.str) \in Range(WOD_TYPES)
                              THEN Norm(wodType.str) ELSE Null,
                 intensity |-> intensity.value]]

\* an object whose own property "toString" hides Object.prototype.toString
Opaque == JObj([toString |-> JNull])

\* the values each key of a raw profile is given
RawValues(key) ==
    CASE key = "goal" ->
            {JStr("skill"), JStr(" Skill "), JStr("hypertrophy"), JStr(""), JNull, JNum(5),
             JList(<<JStr("skill")>>), JObj(<<>>), Opaque}
      [] key = "fitness_level" ->
            {JStr("Advanced"), JStr("beginner"), JStr("elite"), JNum(0), JNull, Opaque}
      [] key = "intensity" ->
            {JStr("High"), JStr("low"), JStr("max"), JNull, Opaque}
      [] key = "session_minutes" ->
            {JNum(30), JNum(500), JNum(5), JNum(-10), JNum(0), JStr("30 min"), JStr("30.9"),
             JStr("abc"), JNull, JList(<<>>), JObj(<<>>), Opaque}
      [] key = "equipment_available" ->
            {JList(<<JStr("Barbell"), JStr("barbell"), JNum(5)>>), JList(<<>>), JNull,
             JStr("barbell")}
      [] key = "limitations" ->
            {JObj([avoid_patterns |-> JList(<<JStr(" core"), JStr("core"), JStr("Hinge")>>),
                   avoid_movements |-> JList(<<JStr("Run"), JStr(" ")>>)]),
             JObj([avoid_patterns |-> JStr("core")]), JList(<<>>), JNull, JStr("core")}
      [] key = "preferred_modalities" ->
            {JList(<<JStr("Recovery"), JStr("yoga")>>), JList(<<JStr("yoga")>>), JList(<<>>),
             JNull, JStr("gymnastics")}
      [] key = "wod_type" ->
            {JStr("AMRAP"), JStr("emom"), JStr("tabata"), JNum(5), JNull,
             JList(<<JStr("emom")>>)}

ProfileKeys == DOMAIN DEFAULT_PROFILE

\* raw profiles: empty, one key set, or goal and session_minutes set
RawProfiles ==
    {JObj(<<>>)}
        \cup UNION {{JObj(key :> v) : v \in RawValues(key)} : key \in ProfileKeys}
        \cup {JObj(("goal" :> g) @@ ("session_minutes" :> m)) :
                 g \in RawValues("goal"), m \in RawValues("session_minutes")}

\* the state outside a run of buildPlan
NoRun ==
    /\ profile = BaseProfile("mixed", 60, Null)
    /\ history = <<>> /\ today = OrdinalDay(2026, 11, 1)
    /\ movements = <<>>
    /\ lookbackDays = 2
    /\ seed = 0
    /\ rng = RngInit(0)
    /\ recentMovements = {}
    /\ patternCounter = <<>>
    /\ ranked = <<>>
    /\ used = {}
    /\ warmup = NoBlock /\ strengthOrSkill = NoBlock
    /\ metcon = NoBlock /\ cooldown = NoBlock
    /\ plan = NoPlan
    /\ error = ""

run == <<inputs, pc, rng, recentMovements, patternCounter, ranked, used, warmup,
         strengthOrSkill, metcon, cooldown, plan, error>>

\* main() about to call mergeProfile (line 925)
InitMergeProfile ==
    /\ NoRun
    /\ pc = "call"
    /\ \E raw \in RawProfiles : call = [fn |-> "mergeProfile", rawProfile |-> raw]
    /\ returned = NoCall

MergeProfile ==
    /\ pc = "call" /\ call.fn = "mergeProfile"
    /\ returned' = mergeProfile(call.rawProfile)
    /\ pc' = "returned"
    /\ UNCHANGED <<inputs, rng, recentMovements, patternCounter, ranked, used, warmup,
                   strengthOrSkill, metcon, cooldown, plan, error, call>>

SpecMergeProfile == InitMergeProfile /\ [][MergeProfile]_vars

\* the string a raw key holds, when it holds an unparsable number
Unparsable(raw, key) ==
    /\ key \in DOMAIN raw.fields
    /\ raw.fields[key].kind = "string"
    /\ ~ParseIntString(raw.fields[key].str).finite

\* what mergeProfile promises of the profile p it returns for a raw profile
ProfileNormalised(p, raw) ==
    /\ p.goal \in {"engine", "strength", "skill", "mixed", "power"}
    /\ p.fitness_level \in {"beginner", "intermediate", "advanced"}
    /\ p.intensity \in {"low", "moderate", "high"}
    /\ p.session_minutes \in 20..120
    /\ Unparsable(raw, "session_minutes") => p.session_minutes = 45
    /\ "none" \in p.equipment_available
    /\ p.preferred_modalities # {}
    /\ p.preferred_modalities \subseteq ValidModalities
    /\ p.wod_type \in Range(WOD_TYPES) \cup {Null}
    /\ \A x \in p.limitations.avoid_patterns \cup p.limitations.avoid_movements :
          x # "" /\ Norm(x) = x

\* C12: mergeProfile returns, for every raw profile record and without
\* failing, a profile whose goal, fitness_level and intensity are among the
\* known values, session_minutes an integer in [20,120] (45 when
\* unparsable), equipment_available holding "none", preferred_modalities a
\* non-empty subset of the five modalities, wod_type a known type or null,
\* and avoid_patterns and avoid_movements lower-cased and trimmed.
C12_MergeProfileTotal ==
    (pc = "returned" /\ call.fn = "mergeProfile") =>
        /\ ~returned.failed
        /\ ProfileNormalised(returned.profile, call.rawProfile)

\* mergeProfile fails only on a raw profile one of whose four converted keys
\* holds an object with an own "toString"; what it returns is normalised
MergeProfileFailsOnlyOnOpaque ==
    (pc = "returned" /\ call.fn = "mergeProfile") =>
        IF returned.failed
        THEN \E key \in {"goal", "fitness_level", "intensity", "session_minutes"} :
                /\ key \in DOMAIN call.rawProfile.fields
                /\ call.rawProfile.fields[key] = Opaque
        ELSE ProfileNormalised(returned.profile, call.rawProfile)

----------------------------------------------------------------------------
(* Scaling notes *)

\* the notes of a Plan written for a name
NotesFor(p, name) == {k \in DOMAIN p.scaling : p.scaling[k].movement = name}

\* the variations of a library movement that are not blank
Variations(m) == SelectSeq(m.variations, LAMBDA v : Trim(v) # "")

\* C13: the scaling list of a returned Plan holds one note for every distinct
\* name of warm-up, strength/skill and metcon, none for a name that is only
\* in the cooldown, and each note gives the first variation of its movement
\* as "easier" and the last as "harder", or the default texts when the
\* movement has no variations.
C13_ScalingNotes ==
    pc = "done" =>
        /\ \A name \in Range(SessionNames(plan)) :
              Cardinality(NotesFor(plan, name)) = 1
        /\ \A k \in DOMAIN plan.scaling :
              /\ plan.scaling[k].movement \in Range(SessionNames(plan))
              /\ \A i \in DOMAIN movements :
                    movements[i].name = plan.scaling[k].movement =>
                        LET variations == Variations(movements[i])
                        IN  IF Len(variations) > 0
                            THEN /\ plan.scaling[k].easier = variations[1]
                                 /\ plan.scaling[k].harder = variations[Len(variations)]
                            ELSE /\ plan.scaling[k].easier = DefaultEasier
                                 /\ plan.scaling[k].harder = DefaultHarder

\* what does hold: the notes are those of the selected names found in the
\* library, one per occurrence and in order of selection
ScalingNotesOfLibraryNames ==
    pc = "done" =>
        LET selected == plan.warmup.movements \o plan.metcon.movements
                            \o (IF plan.strength_or_skill # NoBlock
                                THEN <<plan.strength_or_skill.movement>> ELSE <<>>)
            known == SelectSeq(selected, LAMBDA n : \E i \in DOMAIN movements :
                                                       movements[i].name = n)
        IN  /\ Len(plan.scaling) = Len(known)
            /\ \A k \in DOMAIN known : plan.scaling[k].movement = known[k]

----------------------------------------------------------------------------
(* buildMetcon called on its own, its loops run pick by pick *)

MetconPool ==
    << Movement("Run", "monostructural", <<"locomotion">>, "beginner", {"Engine"},
                {"none"}, <<"walk", "jog", "sprint">>),
       Movement("row", "monostructural", <<"pull">>, "beginner", {"engine", "power"},
                {"rower"}, <<"easy row">>),
       Movement("plank", "gymnastics", <<" core", "core">>, "beginner", {"skill"},
                {"bodyweight"}, <<>>),
       Movement("pull-up", "gymnastics", <<"pull">>, "intermediate", {"skill", "strength"},
                {"none"}, <<"ring row", "strict pull-up">>),
       Movement("deadlift", "weightlifting", <<"hinge">>, "intermediate", {"strength"},
                {"Barbell"}, <<"kettlebell deadlift", " ", "deficit deadlift">>),
       Movement("sandbag carry", "odd-object", <<"carry", "core">>, "beginner",
                {"strength", "engine"}, {"none"}, <<"light carry", "heavy carry">>),
       Movement("couch stretch", "recovery", <<"squat">>, "beginner", {},
                {"none"}, <<>>) >>

\* the subsequence of a sequence at the positions of a set
RECURSIVE SubSeqAt(_, _)
SubSeqAt(pool, positions) ==
    IF positions = {} THEN <<>>
    ELSE LET last == CHOOSE i \in positions : \A j \in positions : j <= i
         IN  Append(SubSeqAt(pool, positions \ {last}), pool[last])

MetconLibraries ==
    {SubSeqAt(MetconPool, ps) :
        ps \in {x \in SUBSET DOMAIN MetconPool : Cardinality(x) \in 1..MaxMetconLib}}

MetconProfiles ==
    {BaseProfile("mixed", minutes, w) : minutes \in {45, 46, 90}, w \in {Null, "emom"}}

\* buildPlan about to call buildMetcon (line 795): ranked non-empty, some
\* names used by the warm-up and the strength block
InitMetcon ==
    /\ profile \in MetconProfiles
    /\ history = <<>> /\ today = OrdinalDay(2026, 11, 1)
    /\ movements \in MetconLibraries
    /\ lookbackDays \in Lookbacks
    /\ seed \in Seeds
    /\ pc = "metcon"
    /\ rng = RngInit(seed)
    /\ recentMovements = {}
    /\ patternCounter = <<>>
    /\ ranked = rankCandidates(movements, profile, {}, <<>>)
    /\ Len(ranked) > 0
    /\ used \in {{}, {"run", "plank"}}
    /\ warmup = NoBlock /\ strengthOrSkill = NoBlock
    /\ metcon = NoBlock /\ cooldown = NoBlock
    /\ plan = NoPlan
    /\ error = ""
    /\ call = NoCall
    /\ returned = NoCall

metconTarget == IF profile.session_minutes > 45 THEN 4 ELSE 3

\* line 594: chooseWodType
MetconStart ==
    /\ pc = "metcon"
    /\ \E wod \in {chooseWodType(profile, rng)} :
          /\ rng' = wod.rng
          /\ call' = [fn |-> "buildMetcon", wodType |-> wod.type, group |-> 1,
                      metconMovements |-> <<>>, before |-> [rng |-> rng, used |-> used]]
    /\ pc' = "metcon.groups"
    /\ UNCHANGED <<inputs, recentMovements, patternCounter, ranked, used, warmup,
                   strengthOrSkill, metcon, cooldown, plan, error, returned>>

\* lines 597-606: one pass of the loop over the modality groups
MetconGroupPick ==
    /\ pc = "metcon.groups"
    /\ IF call.group > Len(MetconGroups)
       THEN pc' = "metcon.topup" /\ UNCHANGED <<call, rng, used>>
       ELSE \E choice \in {pickBest(ranked, movements, rng, used,
                                    MetconGroups[call.group], FALSE)} :
                /\ rng' = choice.rng /\ used' = choice.used
                /\ call' = [call EXCEPT
                              !.group = @ + 1,
                              !.metconMovements = IF choice.chosen # 0
                                                  THEN Append(@, choice.chosen) ELSE @]
                /\ pc' = pc
    /\ UNCHANGED <<inputs, recentMovements, patternCounter, ranked, warmup,
                   strengthOrSkill, metcon, cooldown, plan, error, returned>>

\* the while loop testing length <= targetCount
MetconTopUpPickOneMore ==
    /\ pc = "metcon.topup"
    /\ IF ~(Len(call.metconMovements) <= metconTarget)
       THEN pc' = "metcon.end" /\ UNCHANGED <<call, rng, used>>
       ELSE \E extra \in {pickBest(ranked, movements, rng, used,
                                   AllActiveModalities, FALSE)} :
                /\ rng' = extra.rng /\ used' = extra.used
                /\ IF extra.chosen = 0
                   THEN pc' = "metcon.end" /\ call' = call
                   ELSE /\ pc' = pc
                        /\ call' = [call EXCEPT !.metconMovements = Append(@, extra.chosen)]
    /\ UNCHANGED <<inputs, recentMovements, patternCounter, ranked, warmup,
                   strengthOrSkill, metcon, cooldown, plan, error, returned>>

\* lines 609-620: one pass of the while loop that tops the selection up
MetconTopUpPick ==
    /\ pc = "metcon.topup"
    /\ IF ~(Len(call.metconMovements) < metconTarget)
       THEN pc' = "metcon.end" /\ UNCHANGED <<call, rng, used>>
       ELSE \E extra \in {pickBest(ranked, movements, rng, used,
                                   AllActiveModalities, FALSE)} :
                /\ rng' = extra.rng /\ used' = extra.used
                /\ IF extra.chosen = 0
                   THEN pc' = "metcon.end" /\ call' = call
                   ELSE /\ pc' = pc
                        /\ call' = [call EXCEPT !.metconMovements = Append(@, extra.chosen)]
    /\ UNCHANGED <<inputs, recentMovements, patternCounter, ranked, warmup,
                   strengthOrSkill, metcon, cooldown, plan, error, returned>>

\* lines 622-652: the throw on an empty selection, else the block
MetconEnd ==
    /\ pc = "metcon.end"
    /\ IF Len(call.metconMovements) = 0
       THEN pc' = "failed" /\ error' = NoMetconError /\ metcon' = NoBlock
       ELSE /\ pc' = "cooldown" /\ error' = error
            /\ metcon' = [type |-> call.wodType, duration_min |-> blocks.metcon,
                          movements |-> [i \in DOMAIN call.metconMovements |->
                                            movements[call.metconMovements[i]].name],
                          emom_minutes |-> IF call.wodType = "emom"
                                           THEN emomMinutes(Len(call.metconMovements),
                                                            blocks.metcon)
                                           ELSE 0]
    /\ UNCHANGED <<inputs, rng, recentMovements, patternCounter, ranked, used, warmup,
                   strengthOrSkill, cooldown, plan, call, returned>>

NextMetcon == MetconStart \/ MetconGroupPick \/ MetconTopUpPick \/ MetconEnd

\* buildMetcon has a pass left to run: every action of NextMetcon is guarded
\* by its pc alone and changes pc, so this is ENABLED <<NextMetcon>>_vars
MetconEnabled == pc \in {"metcon", "metcon.groups", "metcon.topup", "metcon.end"}

\* The script is synchronous: while buildMetcon has a pass left, the pass is
\* taken. This is WF_vars(NextMetcon) with ENABLED replaced by MetconEnabled.
MetconFair == []<>(~MetconEnabled) \/ []<><<NextMetcon>>_vars

SpecMetcon == InitMetcon /\ [][NextMetcon]_vars /\ MetconFair

\* the passes agree with buildMetcon computed in one piece
MetconStepsAgreeWithBuildMetcon ==
    pc \in {"cooldown", "failed"} =>
        LET Same(m) ==
                /\ m.failed <=> pc = "failed"
                /\ m.block = metcon /\ m.rng = rng /\ m.used = used
        IN  Same(buildMetcon(ranked, movements, call.before.used, call.before.rng,
                             profile, blocks.metcon))

\* the metcon minutes of the block-length table
MetconMinutes == {sessionBlockLengths(m).metcon : m \in 20..120}

\* C14: the EMOM minute count computed from the block's minutes m and the
\* station count s is a multiple of s, at least 4 * s and at least m: for the
\* block just built, and for every m of the table with 1 <= s <= 4.
C14_EmomMinutes ==
    (pc = "cooldown" /\ metcon.type = "emom") =>
        /\ metcon.emom_minutes % Len(metcon.movements) = 0
        /\ metcon.emom_minutes >= 4 * Len(metcon.movements)
        /\ metcon.emom_minutes >= metcon.duration_min
        /\ \A m \in MetconMinutes : \A stations \in 1..4 :
              /\ emomMinutes(stations, m) % stations = 0
              /\ emomMinutes(stations, m) >= 4 * stations
              /\ emomMinutes(stations, m) >= m

\* what does hold of the EMOM minutes: a multiple of the stations, at least
\* 4 per station, and less than one cycle short of the block's minutes
EmomMinutesWithinOneCycle ==
    (pc = "cooldown" /\ metcon.type = "emom") =>
        /\ metcon.emom_minutes % Len(metcon.movements) = 0
        /\ metcon.emom_minutes >= 4 * Len(metcon.movements)
        /\ metcon.emom_minutes > metcon.duration_min - Len(metcon.movements)

\* an EMOM block of four stations in a 30-minute metcon
EmomFourStations ==
    /\ pc = "cooldown" /\ metcon.type = "emom"
    /\ Len(metcon.movements) = 4 /\ metcon.duration_min = 30

----------------------------------------------------------------------------
(* pickBest called on its own *)

\* ten movements the profile can do, two of them recovery
PickPool ==
    MetconPool \o
    << Movement("air squat", "gymnastics", <<"squat">>, "beginner", {"engine"},
                {"bodyweight"}, <<"box squat">>),
       Movement("kettlebell swing", "weightlifting", <<"hinge">>, "beginner", {"power"},
                {"none"}, <<>>),
       Movement("box breathing", "recovery", <<>>, "beginner", {}, {"none"}, <<>>) >>

PickLibraries == {SubSeq(PickPool, 1, n) : n \in 1..Len(PickPool)}

PickModalities ==
    {NoModalities, {"monostructural"}, {"gymnastics", "recovery"}, AllActiveModalities}

\* a caller about to call pickBest(ranked, rng, used, modalities, includeRecovery)
InitPickBest ==
    /\ profile = BaseProfile("mixed", 60, Null)
    /\ history = <<>> /\ today = OrdinalDay(2026, 11, 1)
    /\ movements \in PickLibraries
    /\ lookbackDays \in Lookbacks
    /\ seed \in 0..MaxPickSeed
    /\ pc = "call"
    /\ rng = RngInit(seed)
    /\ recentMovements = {}
    /\ patternCounter = <<>>
    /\ ranked = rankCandidates(movements, profile, {}, <<>>)
    /\ used \in {{}, {"run"}, {"run", "plank"}}
    /\ warmup = NoBlock /\ strengthOrSkill = NoBlock
    /\ metcon = NoBlock /\ cooldown = NoBlock
    /\ plan = NoPlan
    /\ error = ""
    /\ \E modalities \in PickModalities, includeRecovery \in BOOLEAN :
          call = [fn |-> "pickBest", modalities |-> modalities,
                  includeRecovery |-> includeRecovery,
                  before |-> [rng |-> rng, used |-> used]]
    /\ returned = NoCall

PickBest ==
    /\ pc = "call" /\ call.fn = "pickBest"
    /\ LET Picked(choice) ==
               /\ returned' = [chosen |-> choice.chosen]
               /\ rng' = choice.rng /\ used' = choice.used
       IN  Picked(pickBest(ranked, movements, rng, used, call.modalities,
                           call.includeRecovery))
    /\ pc' = "returned"
    /\ UNCHANGED <<inputs, recentMovements, patternCounter, ranked, warmup,
                   strengthOrSkill, metcon, cooldown, plan, error, call>>

SpecPickBest == InitPickBest /\ [][PickBest]_vars

\* the entries of ranked, in rank order, a call of pickBest may choose from
Survivors ==
    SelectSeq(ranked, LAMBDA entry :
        /\ Norm(movements[entry[1]].name) \notin call.before.used
        /\ call.modalities # NoModalities
              => Norm(movements[entry[1]].modality) \in call.modalities
        /\ Norm(movements[entry[1]].modality) = "recovery" => call.includeRecovery)

\* C15: pickBest returns null, with used and rng untouched, when no entry of
\* ranked survives its filters; otherwise it returns one of the first
\* min(8, |S|) survivors, adds exactly that entry's normalised name to used
\* and advances rng exactly once.
C15_PickBestContract ==
    (pc = "returned" /\ call.fn = "pickBest") =>
        IF Len(Survivors) = 0
        THEN returned.chosen = 0 /\ used = call.before.used /\ rng = call.before.rng
        ELSE /\ \E k \in 1..Min(8, Len(Survivors)) : Survivors[k][1] = returned.chosen
             /\ used = call.before.used \cup {Norm(movements[returned.chosen].name)}
             /\ Norm(movements[returned.chosen].name) \notin call.before.used
             /\ rng = RngNext(call.before.rng).state

\* C15 witness: more than eight survivors, recovery allowed, and the entry
\* chosen is not the best-ranked one
C15_Witness ==
    /\ pc = "returned" /\ call.fn = "pickBest" /\ call.includeRecovery
    /\ Len(Survivors) > 8
    /\ returned.chosen # Survivors[1][1]

----------------------------------------------------------------------------
(* recentContext on histories of every kind of date *)

\* run on 2026-11-01 with a window of 2 the cutoff is 2026-10-30
HistoryDates ==
    { NoDate, [kind |-> "text"], IsoDate(2026, 2, 30),
      IsoDate(2026, 10, 29), IsoDate(2026, 10, 30), IsoDate(2026, 11, 1) }

HistorySessions ==
    { Session(d, names, pats) :
        d \in HistoryDates,
        names \in {<<"plank", "Run", "plank">>, <<"burpee", " ", "deadlift">>},
        pats \in {<<>>, <<"Hinge", " ", "core">>} }

Histories == UNION {[1..n -> HistorySessions] : n \in 0..MaxHistory}

\* buildPlan entered with a history (line 780)
InitHistory ==
    /\ profile = BaseProfile("mixed", 60, Null)
    /\ history \in Histories
    /\ today = OrdinalDay(2026, 11, 1)
    /\ movements = SubSeqAt(Pool, {1, 3, 4})
    /\ lookbackDays \in Lookbacks
    /\ seed = 0
    /\ pc = "start"
    /\ rng = RngInit(seed)
    /\ recentMovements = {}
    /\ patternCounter = <<>>
    /\ ranked = <<>>
    /\ used = {}
    /\ warmup = NoBlock /\ strengthOrSkill = NoBlock
    /\ metcon = NoBlock /\ cooldown = NoBlock
    /\ plan = NoPlan
    /\ error = ""
    /\ call = NoCall
    /\ returned = NoCall

SpecHistory == InitHistory /\ [][Rank]_vars

\* the sessions the claim counts: date absent, unparsable, or not before the
\* cutoff
CountedSessions ==
    {i \in DOMAIN history :
        \/ ~parseIsoDate(history[i].date).ok
        \/ parseIsoDate(history[i].date).ordinalDay >= today - lookbackDays}

\* how many entries of a sequence of tags are the pattern p
TimesIn(tags, p) == Cardinality({k \in DOMAIN tags : Trim(tags[k]) # "" /\ Norm(tags[k]) = p})

\* the sum of the values of a function with a finite domain
RECURSIVE SumFn(_)
SumFn(f) ==
    IF DOMAIN f = {} THEN 0
    ELSE LET x == CHOOSE y \in DOMAIN f : TRUE
         IN  f[x] + SumFn([y \in DOMAIN f \ {x} |-> f[y]])

\* how often p is reached through the library patterns of the movements a
\* session lists
ThroughMovements(i, p) ==
    SumFn([k \in DOMAIN history[i].movements |->
              SumFn([j \in {x \in DOMAIN movements :
                               /\ Norm(history[i].movements[k]) # ""
                               /\ Norm(movements[x].name) = Norm(history[i].movements[k])}
                        |-> TimesIn(movements[j].patterns, p)])])

KnownPatterns ==
    UNION {asLowerSet(Range(movements[j].patterns)) : j \in DOMAIN movements}
        \cup UNION {asLowerSet(Range(history[i].patterns)) : i \in DOMAIN history}

\* C16: recentContext counts a session iff its date is absent, unparsable or
\* not before the cutoff; sessions before the cutoff add nothing; the recent
\* movements are exactly the normalised names the counted sessions list, and
\* a pattern's count is the times it is reached through the library patterns
\* of a listed movement plus the times a session asserts it.
C16_RecentContext ==
    pc # "start" =>
        /\ recentMovements =
              {Norm(n) : n \in UNION {Range(history[i].movements) : i \in CountedSessions}}
                  \ {""}
        /\ DOMAIN patternCounter \subseteq KnownPatterns
        /\ \A p \in KnownPatterns :
              CounterGet(patternCounter, p) =
                  SumFn([i \in CountedSessions |->
                            ThroughMovements(i, p) + TimesIn(history[i].patterns, p)])

\* C16 witness: one session before the cutoff, dropped although it lists
\* movements and patterns, and one on the cutoff day, counted, with a pattern
\* counted more than once
C16_Witness ==
    /\ pc # "start"
    /\ \E i, j \in DOMAIN history :
          /\ i \notin CountedSessions /\ history[i].patterns # <<>>
          /\ j \in CountedSessions /\ history[j].date = IsoDate(2026, 10, 30)
    /\ recentMovements # {}
    /\ \E p \in DOMAIN patternCounter : patternCounter[p] >= 2
    /\ CounterGet(patternCounter, "hinge") = 0

----------------------------------------------------------------------------
(* The metcon selection *)

\* the ranked entries of the four active modalities whose name is unused
ActiveLeft ==
    {k \in DOMAIN ranked :
        /\ Norm(movements[ranked[k][1]].modality) \in AllActiveModalities
        /\ Norm(movements[ranked[k][1]].name) \notin used}

InMetconSelection == pc \in {"metcon.groups", "metcon.topup", "metcon.end"}

\* C17: buildMetcon's selection terminates; it never holds more than the
\* target count (4 if session_minutes > 45, else 3) of movements; it ends
\* below the target only if no unused ranked movement of the four active
\* modalities is left; and no recovery movement is ever selected.
C17_MetconSelection ==
    /\ <>(pc \in {"cooldown", "failed"})
    /\ [](InMetconSelection =>
            /\ Len(call.metconMovements) <= (IF profile.session_minutes > 45 THEN 4 ELSE 3)
            /\ \A k \in DOMAIN call.metconMovements :
                  Norm(movements[call.metconMovements[k]].modality) # "recovery"
            /\ (pc = "metcon.end"
                  /\ Len(call.metconMovements) < (IF profile.session_minutes > 45 THEN 4 ELSE 3))
                  => ActiveLeft = {})
    /\ [](pc = "cooldown" =>
            Len(metcon.movements) <= (IF profile.session_minutes > 45 THEN 4 ELSE 3))

\* C17 witness: a selection that stopped at the target of four with active
\* movements still unused, in a library that holds a recovery movement
C17_Witness ==
    /\ pc = "cooldown" /\ Len(metcon.movements) = 4
    /\ ActiveLeft # {}
    /\ \E i \in DOMAIN movements : Norm(movements[i].modality) = "recovery"

\* a selection that ended below its target
MetconBelowTarget ==
    pc = "cooldown" /\ profile.session_minutes > 45 /\ Len(metcon.movements) \in 1..3

----------------------------------------------------------------------------
(* The block lengths against the session length *)

\* the values line 171 leaves in profile.session_minutes
SessionMinutes == 20..120

\* buildPlan called on the whole catalogue with every normalised session length
InitSession ==
    /\ profile \in {BaseProfile("mixed", minutes, Null) : minutes \in SessionMinutes}
    /\ history = <<>> /\ today = OrdinalDay(2026, 11, 1)
    /\ movements = Pool
    /\ lookbackDays \in Lookbacks
    /\ seed \in Seeds
    /\ pc = "start"
    /\ rng = RngInit(seed)
    /\ recentMovements = {}
    /\ patternCounter = <<>>
    /\ ranked = <<>>
    /\ used = {}
    /\ warmup = NoBlock /\ strengthOrSkill = NoBlock
    /\ metcon = NoBlock /\ cooldown = NoBlock
    /\ plan = NoPlan
    /\ error = ""
    /\ call = NoCall
    /\ returned = NoCall

SpecSession == InitSession /\ [][Next]_vars

\* the minutes of the blocks of a Plan, added up
PlannedMinutes(p) ==
    p.warmup.duration_min
    + (IF p.strength_or_skill = NoBlock THEN 0 ELSE p.strength_or_skill.duration_min)
    + p.metcon.duration_min
    + p.cooldown.duration_min

\* C18: the durations of the warm-up, strength, metcon and cooldown blocks of
\* a Plan sum to no more than the normalised session_minutes of its profile.
C18_BlocksFitSession ==
    pc = "done" => PlannedMinutes(plan) <= plan.profile.session_minutes

\* the blocks of a Plan take the whole of their tier's allocation: they fit
\* the session exactly when it is at least 28, 42, 54 or 67 minutes long
BlocksFitFromTierSum ==
    pc = "done" =>
        LET m == plan.profile.session_minutes
        IN  /\ PlannedMinutes(plan) = (IF m <= 30 THEN 28 ELSE IF m <= 45 THEN 42
                                       ELSE IF m <= 60 THEN 54 ELSE 67)
            /\ PlannedMinutes(plan) <= m
                  <=> m \in (28..30) \cup (42..45) \cup (54..60) \cup (67..120)

\* a Plan for the shortest session: 28 minutes of blocks in 20 minutes
ShortestSessionPlanned ==
    pc = "done" /\ plan.profile.session_minutes = 20 /\ PlannedMinutes(plan) = 28

====
